---- MODULE Spec2Model ----
(***************************************************************************)
(* ClueFS directory nodes (dir.go): the Dir operations Open, Release,      *)
(* Lookup, ReadDirAll, Mkdir, Remove, Create and Symlink over a backing    *)
(* directory tree, with the trace records each invocation emits.           *)
(*                                                                         *)
(* Paths are strings, modelled as sequences of one-character strings, so   *)
(* that filepath.Join, strings.HasPrefix and strings.Replace are computed  *)
(* character by character as the Go library computes them.                 *)
(***************************************************************************)
EXTENDS Integers, Sequences, FiniteSets, TLC

(***************************************************************************)
(* Bounds of the model.                                                    *)
(***************************************************************************)
\* Dir objects the dispatcher holds at once besides the root node.
MaxDirs == 1
\* The same, where Release runs interleaved.
MaxHandles == 2
\* Entries the backing tree holds before a creating call fails with ENOSPC.
MaxEntries == 2
\* Requests that may be inside Release at the same time.
MaxThreads == 2
\* Symbolic links followed while resolving one path (ELOOP beyond).
MaxHops == 2

(***************************************************************************)
(* Strings.                                                                *)
(***************************************************************************)
Sep == "/"

\* strings.HasPrefix(s, prefix)
HasPrefix(s, prefix) ==
    /\ Len(s) >= Len(prefix)
    /\ SubSeq(s, 1, Len(prefix)) = prefix

\* strings.Index(s, old): the first position old occurs at, 0 when absent
Index(s, old) ==
    LET hits == {i \in 1..(Len(s) + 1) :
                    /\ i + Len(old) - 1 <= Len(s)
                    /\ SubSeq(s, i, i + Len(old) - 1) = old}
    IN IF hits = {} THEN 0 ELSE CHOOSE i \in hits : \A j \in hits : i <= j

\* strings.Replace(s, old, new, 1): the first occurrence of old replaced
ReplaceFirst(s, old, new) ==
    LET i == Index(s, old)
    IN IF i = 0 THEN s
       ELSE SubSeq(s, 1, i - 1) \o new \o SubSeq(s, i + Len(old), Len(s))

\* filepath.IsAbs(path)
IsAbs(path) == Len(path) > 0 /\ path[1] = Sep

\* the components of a path: the pieces between separators, empty ones kept
RECURSIVE SplitFrom(_, _, _)
SplitFrom(s, i, cur) ==
    IF i > Len(s) THEN <<cur>>
    ELSE IF s[i] = Sep THEN <<cur>> \o SplitFrom(s, i + 1, <<>>)
    ELSE SplitFrom(s, i + 1, Append(cur, s[i]))

Split(s) == SplitFrom(s, 1, <<>>)

RECURSIVE JoinWith(_)
JoinWith(comps) ==
    IF comps = <<>> THEN <<>>
    ELSE IF Len(comps) = 1 THEN comps[1]
    ELSE comps[1] \o <<Sep>> \o JoinWith(Tail(comps))

Dot == <<".">>
DotDot == <<".", ".">>

\* filepath.Clean's walk over the components: "" and "." dropped, ".."
\* removes the component before it (or is dropped at the root of a rooted
\* path, or kept at the start of a relative one)
RECURSIVE CleanComps(_, _, _)
CleanComps(comps, out, rooted) ==
    IF comps = <<>> THEN out
    ELSE LET c == Head(comps)
             rest == Tail(comps)
         IN IF c = <<>> \/ c = Dot THEN CleanComps(rest, out, rooted)
            ELSE IF c = DotDot
                 THEN IF out # <<>> /\ out[Len(out)] # DotDot
                      THEN CleanComps(rest, SubSeq(out, 1, Len(out) - 1), rooted)
                      ELSE IF rooted THEN CleanComps(rest, out, rooted)
                      ELSE CleanComps(rest, Append(out, c), rooted)
            ELSE CleanComps(rest, Append(out, c), rooted)

\* filepath.Clean(path)
Clean(path) ==
    IF path = <<>> THEN Dot
    ELSE LET rooted == IsAbs(path)
             out == CleanComps(Split(path), <<>>, rooted)
         IN IF rooted THEN <<Sep>> \o JoinWith(out)
            ELSE IF out = <<>> THEN Dot ELSE JoinWith(out)

\* filepath.Join(a, b): empty elements ignored, the rest joined by the
\* separator and cleaned; the empty string when both are empty
Join(a, b) ==
    IF a = <<>> /\ b = <<>> THEN <<>>
    ELSE IF a = <<>> THEN Clean(b)
    ELSE IF b = <<>> THEN Clean(a)
    ELSE Clean(a \o <<Sep>> \o b)

(***************************************************************************)
(* The mount context and the names requests carry.                         *)
(***************************************************************************)
\* d.fs.mountDir and d.fs.shadowDir
mountDir == <<"/", "m">>
shadowDir == <<"/", "s">>

RootPath == <<Sep>>
\* a directory outside both the mount and the shadow tree
OutsideDir == <<"/", "e">>

NameA == <<"a">>
NameB == <<".", "_", "b">>
Names == {NameA, NameB}

\* the link targets a Symlink request may carry: below the mount root, a
\* sibling of the mount root that shares its spelling, outside the mount,
\* relative, and relative but leading into the mount
Targets ==
    { <<"/", "m", "/", "a">>,
      <<"/", "m", "a">>,
      <<"/", "e">>,
      <<"a">>,
      <<".", ".", "/", "m", "/", "a">> }

\* request headers: the identity triple of the calling process
Headers ==
    { [Uid |-> 0, Gid |-> 0, Pid |-> 1],
      [Uid |-> 1000, Gid |-> 100, Pid |-> 2] }

NoProcessInfo == [Uid |-> 0, Gid |-> 0, Pid |-> 0]

\* the platforms init() distinguishes
Platforms == {"darwin", "linux"}

(***************************************************************************)
(* The backing tree: every path below the shadow root, down to MaxDepth    *)
(* components, holds nothing, a file, a directory or a symbolic link.      *)
(***************************************************************************)
\* Path components below the shadow root before a call fails with
\* ENAMETOOLONG.
MaxDepth == 2

RECURSIVE PathsOfDepth(_)
PathsOfDepth(n) ==
    IF n = 0 THEN {shadowDir}
    ELSE {p \o <<Sep>> \o c : p \in PathsOfDepth(n - 1), c \in Names}

FsPaths == UNION {PathsOfDepth(n) : n \in 1..MaxDepth}

NoEntry == [kind |-> "none", target |-> <<>>]
FileEntry == [kind |-> "file", target |-> <<>>]
DirEntry == [kind |-> "dir", target |-> <<>>]
LinkEntry(t) == [kind |-> "link", target |-> t]

StaticDirs == {RootPath, shadowDir, mountDir, OutsideDir}

\* the kind of the entry stored at a canonical path
RawKind(tree, p) ==
    IF p \in FsPaths THEN tree[p].kind
    ELSE IF p \in StaticDirs THEN "dir"
    ELSE "none"

\* the names of the entries directly below a canonical directory path
Children(tree, p) ==
    {n \in Names : (p \o <<Sep>> \o n) \in FsPaths
                   /\ tree[p \o <<Sep>> \o n].kind # "none"}

NumEntries(tree) == Cardinality({p \in FsPaths : tree[p].kind # "none"})

\* the non-empty components of a cleaned path
Components(p) == SelectSeq(Split(Clean(p)), LAMBDA c : c # <<>>)

\* The kernel's path walk from the canonical directory cur over comps.
\* err is "OK" with the canonical path and kind of the entry found, or
\* "ENOENT" with path the place the missing last component would be
\* created at (<<>> when an inner component is missing), or another errno.
RECURSIVE Walk(_, _, _, _, _)
Walk(tree, cur, comps, followLast, fuel) ==
    IF comps = <<>>
    THEN [err |-> "OK", path |-> cur, kind |-> RawKind(tree, cur)]
    ELSE LET c == Head(comps)
             rest == Tail(comps)
             next == IF cur = RootPath THEN <<Sep>> \o c
                     ELSE cur \o <<Sep>> \o c
             k == RawKind(tree, next)
         IN IF k = "none"
            THEN [err |-> "ENOENT",
                  path |-> IF rest = <<>> THEN next ELSE <<>>,
                  kind |-> "none"]
            ELSE IF k = "link" /\ (rest # <<>> \/ followLast)
            THEN IF fuel = 0
                 THEN [err |-> "ELOOP", path |-> <<>>, kind |-> "none"]
                 ELSE LET t == tree[next].target
                          np == IF IsAbs(t) THEN Clean(t) ELSE Join(cur, t)
                      IN Walk(tree, RootPath, Components(np) \o rest,
                              followLast, fuel - 1)
            ELSE IF k = "file" /\ rest # <<>>
            THEN [err |-> "ENOTDIR", path |-> <<>>, kind |-> "none"]
            ELSE Walk(tree, next, rest, followLast, fuel)

\* lstat(2) and stat(2) of a path
Lstat(tree, path) ==
    IF ~IsAbs(path) THEN [err |-> "ENOENT", path |-> <<>>, kind |-> "none"]
    ELSE Walk(tree, RootPath, Components(path), FALSE, MaxHops)

Stat(tree, path) ==
    IF ~IsAbs(path) THEN [err |-> "ENOENT", path |-> <<>>, kind |-> "none"]
    ELSE Walk(tree, RootPath, Components(path), TRUE, MaxHops)

\* why an entry cannot be created at the canonical path p, "OK" if it can
CreateErr(tree, p) ==
    IF p = <<>> THEN "ENOENT"
    ELSE IF HasPrefix(p, shadowDir \o <<Sep>>) /\ p \notin FsPaths
    THEN "ENAMETOOLONG"
    ELSE IF p \notin FsPaths THEN "EACCES"
    ELSE IF NumEntries(tree) >= MaxEntries THEN "ENOSPC"
    ELSE "OK"

(***************************************************************************)
(* Error translation.  A backing failure is a Go error value: its shape    *)
(* and, for the wrapping shapes, whether the wrapped error is a            *)
(* syscall.Errno, and the code.                                            *)
(***************************************************************************)
PathError(code) == [shape |-> "PathError", innerErrno |-> TRUE, code |-> code]
LinkError(code) == [shape |-> "LinkError", innerErrno |-> TRUE, code |-> code]

\* a bare syscall.Errno value, a pointer to one, and an error of any other
\* type (one made by errors.New, say)
BareErrno(code) == [shape |-> "Errno", innerErrno |-> TRUE, code |-> code]
ErrnoPtr(code) == [shape |-> "ErrnoPtr", innerErrno |-> TRUE, code |-> code]
OtherError == [shape |-> "Other", innerErrno |-> FALSE, code |-> "none"]
\* a *os.PathError or *os.LinkError whose Err is no syscall.Errno
PathErrorOther == [shape |-> "PathError", innerErrno |-> FALSE, code |-> "none"]
LinkErrorOther == [shape |-> "LinkError", innerErrno |-> FALSE, code |-> "none"]
NoCause == [shape |-> "nil", innerErrno |-> FALSE, code |-> "none"]

\* the system error codes a cause may carry
Errnos ==
    {"EPERM", "ENOENT", "EIO", "EBADF", "EACCES", "EEXIST", "ENOTDIR",
     "EISDIR", "EINVAL", "EMFILE", "ENOSPC", "ENAMETOOLONG", "ENOTEMPTY",
     "ELOOP"}

\* the non-nil error values osErrorToFuseError may be handed
Causes ==
    {PathError(c) : c \in Errnos} \cup {LinkError(c) : c \in Errnos}
    \cup {BareErrno(c) : c \in Errnos} \cup {ErrnoPtr(c) : c \in Errnos}
    \cup {PathErrorOther, LinkErrorOther, OtherError}

\* osErrorToFuseError(err) for a non-nil err
osErrorToFuseError(err) ==
    IF err.shape = "PathError"
    THEN IF err.innerErrno THEN err.code ELSE "PANIC"
    ELSE IF err.shape = "LinkError"
    THEN IF err.innerErrno THEN err.code ELSE "PANIC"
    ELSE IF err.shape = "ErrnoPtr" THEN "PANIC"
    ELSE "EIO"

(***************************************************************************)
(* State.                                                                  *)
(***************************************************************************)
VARIABLES
    goos,   \* runtime.GOOS of the build
    fs,     \* the backing tree: FsPaths -> entry
    dirs,   \* the Dir objects the dispatcher holds: slot 1 is the root node
    rel,    \* the requests inside Release, one per dispatcher thread
    ret     \* what the handler that returned last gave back and did,
            \* until the dispatcher has sent the response

vars == <<goos, fs, dirs, rel, ret>>

Slots == DOMAIN dirs
Threads == 1..MaxThreads

\* the descriptor of a Handle: closed (nil) or open on a canonical path
NoFile == [open |-> FALSE, path |-> <<>>, atEOF |-> FALSE, dead |-> FALSE]
OpenedFile(p) == [open |-> TRUE, path |-> p, atEOF |-> FALSE, dead |-> FALSE]

NoDir ==
    [used |-> FALSE, parent |-> <<>>, name |-> <<>>, path |-> <<>>,
     file |-> NoFile, handleID |-> 0, info |-> NoProcessInfo, closes |-> 0]

\* NewDir(parent, name, fs): NewNode's path is Join(parent, name); the
\* Handle is fresh, hence closed
NewDir(parent, name) ==
    [used |-> TRUE, parent |-> parent, name |-> name,
     path |-> Join(parent, name),
     file |-> NoFile, handleID |-> 0, info |-> NoProcessInfo, closes |-> 0]

\* SetProcessInfo leaving the ProcessInfo as it is
SetProcessInfoNone(d, h) == d

\* d.SetProcessInfo(h)
SetProcessInfo(d, h) ==
    [d EXCEPT !.info = [Uid |-> h.Uid, Gid |-> h.Gid, Pid |-> h.Pid]]

\* Handle.isOpen()
isOpen(d) == d.file.open

\* skipDirEntry(n), as init() sets it for the platform
skipDirEntry(n) ==
    IF goos = "darwin" THEN HasPrefix(n, <<".", "_">>) ELSE FALSE

\* a File object: NewFile(parent, name, fs) has a fresh, closed Handle,
\* NewOpenFile(parent, name, fs, f) a Handle that holds the descriptor f
NoHandle == [parent |-> <<>>, name |-> <<>>, path |-> <<>>, file |-> NoFile]
NewFile(parent, name) ==
    [parent |-> parent, name |-> name, path |-> Join(parent, name),
     file |-> NoFile]
NewOpenFile(parent, name, f) == [NewFile(parent, name) EXCEPT !.file = f]

\* File.Write through a handle: refused unless the handle is open
FileWrite(h) == IF ~isOpen(h) THEN "ENOTSUP" ELSE "OK"

\* what a handler returns to the dispatcher when it gives back a node
NoNode == [type |-> "nil", parent |-> <<>>, name |-> <<>>]
DirNode(parent, name) == [type |-> "Dir", parent |-> parent, name |-> name]
FileNode(parent, name) == [type |-> "File", parent |-> parent, name |-> name]

\* resp.AttrValid and resp.EntryValid of Lookup, in milliseconds
AttrValidMs == 1000
EntryValidMs == 500

\* a trace record
TraceOp(op, path) == [op |-> op, path |-> path]

\* the record of one returned invocation: d, parent and path the receiver,
\* err the error returned, node and slot the node returned (slot 0: not
\* kept), handle whether an open handle came back, trace the records
\* trace() emitted, calls the backing calls made, entryOpen the receiver's
\* handle state when the call came in, cause the error value handed to
\* osErrorToFuseError when it is called on its own, opened the File that
\* came back as a handle, attrValid and entryValid the validities set in
\* the response, in milliseconds, syncErr and closeErr what doSync and
\* doClose gave back ("none": not called), excl whether the flags of a
\* Create held O_EXCL, header the identity triple of an Open request
Result(op, d, name) ==
    [op |-> op, d |-> d, name |-> name, err |-> "OK",
     parent |-> IF d \in Slots THEN dirs[d].parent ELSE <<>>,
     path |-> IF d \in Slots THEN dirs[d].path ELSE <<>>,
     node |-> NoNode, slot |-> 0, handle |-> FALSE, handleID |-> 0,
     dirents |-> <<>>, trace |-> <<>>, calls |-> <<>>,
     entryOpen |-> IF d \in Slots THEN isOpen(dirs[d]) ELSE FALSE,
     flush |-> FALSE,
     target |-> <<>>, persisted |-> <<>>,
     cause |-> NoCause, opened |-> NoHandle,
     attrValid |-> 0, entryValid |-> 0,
     syncErr |-> "none", closeErr |-> "none",
     excl |-> FALSE, header |-> NoProcessInfo]

NoResult == Result("none", 0, <<>>)

IdleThread == [pc |-> "idle", d |-> 0, flush |-> FALSE, calls |-> <<>>]

InitWith(n) ==
    /\ goos \in Platforms
    /\ fs = [p \in FsPaths |-> NoEntry]
    /\ dirs = [i \in 1..(n + 1) |->
                 IF i = 1 THEN NewDir(<<>>, shadowDir) ELSE NoDir]
    /\ rel = [t \in Threads |-> IdleThread]
    /\ ret = NoResult

Init == InitWith(MaxDirs)

\* the dispatcher hands a request to a handler once the last response is out
Idle == ret.op = "none"

FreeSlots == {i \in Slots : ~dirs[i].used}

\* where the dispatcher keeps a Dir a handler returns: a free slot, else
\* the slot of a node it forgets (never the root, never a node a request
\* is inside Release on); 0 when there is none
KeepSlots ==
    IF FreeSlots # {}
    THEN {CHOOSE i \in FreeSlots : \A j \in FreeSlots : i <= j}
    ELSE LET ev == {i \in Slots \ {1} : \A t \in Threads : rel[t].d # i}
         IN IF ev = {} THEN {0} ELSE ev

Store(s, d) == IF s = 0 THEN dirs ELSE [dirs EXCEPT ![s] = d]

\* a handle identifier no other handle the dispatcher holds has
FreshHandleID(s) == IF s = 0 THEN Cardinality(Slots) + 1 ELSE s

(***************************************************************************)
(* Handle and dirent helpers.                                              *)
(***************************************************************************)
\* Handle.doOpen(path, flags, perm): os.OpenFile of the path, links
\* followed; the failure already translated
doOpen(path) ==
    LET opened(r) ==
            IF r.err = "OK"
            THEN [err |-> "OK", file |-> OpenedFile(r.path)]
            ELSE [err |-> osErrorToFuseError(PathError(r.err)),
                  file |-> NoFile]
    IN opened(Stat(fs, path))

\* Handle.doClose(): the descriptor is closed and the handle left closed;
\* closing the descriptor can fail, and does when it is closed already
doCloseErrs(d) == IF isOpen(d) THEN {"OK", "EIO"} ELSE {"EINVAL"}

doClose(d) == [d EXCEPT !.file = NoFile, !.closes = @ + 1]

\* Handle.doSync(): the descriptor is flushed, which can fail
doSyncErrs(d) == IF isOpen(d) THEN {"OK", "EIO"} ELSE {"EINVAL"}

\* getFuseDirent(path, name): the entry's inode and kind by lstat, under
\* the name given; the canonical path stands for the inode number
getFuseDirent(path, name) ==
    LET dirent(st) == [inode |-> IF st.err = "OK" THEN st.path ELSE <<>>,
                       name |-> name,
                       kind |-> st.kind]
    IN dirent(Lstat(fs, path))

\* the orders a directory's names can be enumerated in
Orders(S) ==
    {o \in [1..Cardinality(S) -> S] :
        \A i, j \in 1..Cardinality(S) : i # j => o[i] # o[j]}

\* d.file.Readdirnames(0): the names from the descriptor's position to the
\* end of the directory, in the order given; nothing once the end was
\* reached; a failure when the descriptor is no live directory
Readdirnames(file, order) ==
    IF file.dead \/ RawKind(fs, file.path) # "dir"
    THEN [err |-> "ENOTDIR", names |-> <<>>]
    ELSE IF file.atEOF THEN [err |-> "OK", names |-> <<>>]
    ELSE [err |-> "OK", names |-> order]

\* Entries with no name skipped
RECURSIVE EntriesAll(_, _)
EntriesAll(path, names) ==
    IF names = <<>> THEN <<>>
    ELSE <<getFuseDirent(Join(path, Head(names)), Head(names))>>
         \o EntriesAll(path, Tail(names))

\* the loop of ReadDirAll: one dirent per name that is not skipped
RECURSIVE Entries(_, _)
Entries(path, names) ==
    IF names = <<>> THEN <<>>
    ELSE IF skipDirEntry(Head(names)) THEN Entries(path, Tail(names))
    ELSE <<getFuseDirent(Join(path, Head(names)), Head(names))>>
         \o Entries(path, Tail(names))

\* Dots with the two entries in the other order
DotsSwapped(d) ==
    LET both(dot) ==
            IF Len(d.parent) > 0
            THEN <<getFuseDirent(d.parent, DotDot), dot>>
            ELSE <<[dot EXCEPT !.name = DotDot], dot>>
    IN both(getFuseDirent(d.path, Dot))

\* Dots with ".." always built from the parent path
DotsFromParent(d) ==
    <<getFuseDirent(d.path, Dot), getFuseDirent(d.parent, DotDot)>>

\* the two entries ReadDirAll appends
Dots(d) ==
    LET both(dot) ==
            IF Len(d.parent) > 0
            THEN <<dot, getFuseDirent(d.parent, DotDot)>>
            ELSE <<dot, [dot EXCEPT !.name = DotDot]>>
    IN both(getFuseDirent(d.path, Dot))

\* the names enumerated below the directory a path leads to
KidsOf(tree, path) ==
    LET below(r) == IF r.err = "OK" THEN Children(tree, r.path) ELSE {}
    IN below(Stat(tree, path))

(***************************************************************************)
(* The backing calls of the os package: the errno and the tree afterwards. *)
(***************************************************************************)
\* os.Mkdir(path, mode)
osMkdir(tree, path) ==
    LET made(st, e) ==
            [err |-> e,
             tree |-> IF e = "OK" THEN [tree EXCEPT ![st.path] = DirEntry]
                      ELSE tree]
        at(st) ==
            made(st, IF st.err = "OK" THEN "EEXIST"
                     ELSE IF st.err = "ENOENT" THEN CreateErr(tree, st.path)
                     ELSE st.err)
    IN at(Lstat(tree, path))

\* os.Remove(path): unlink, or rmdir of an empty directory; gone holds the
\* directory removed
osRemove(tree, path) ==
    LET removed(st, e) ==
            [err |-> e,
             tree |-> IF e = "OK" THEN [tree EXCEPT ![st.path] = NoEntry]
                      ELSE tree,
             gone |-> IF e = "OK" /\ st.kind = "dir" THEN {st.path} ELSE {}]
        at(st) ==
            removed(st, IF st.err # "OK" THEN st.err
                        ELSE IF st.path \notin FsPaths THEN "EACCES"
                        ELSE IF st.kind = "dir"
                                /\ Children(tree, st.path) # {}
                        THEN "ENOTEMPTY"
                        ELSE "OK")
    IN at(Lstat(tree, path))

\* os.OpenFile(path, flags, mode) with O_CREAT, and O_EXCL when excl
osCreate(tree, path, excl) ==
    LET created(st, e) ==
            [err |-> e,
             tree |-> IF e = "OK" /\ st.err = "ENOENT"
                      THEN [tree EXCEPT ![st.path] = FileEntry] ELSE tree]
        at(st) ==
            created(st, IF st.err = "OK"
                        THEN IF excl THEN "EEXIST"
                             ELSE IF st.kind = "dir" THEN "EISDIR" ELSE "OK"
                        ELSE IF st.err = "ENOENT"
                        THEN CreateErr(tree, st.path)
                        ELSE st.err)
    IN at(IF excl THEN Lstat(tree, path) ELSE Stat(tree, path))

\* os.Symlink(oldname, newname)
osSymlink(tree, oldname, newname) ==
    LET linked(st, e) ==
            [err |-> e,
             tree |-> IF e = "OK"
                      THEN [tree EXCEPT ![st.path] = LinkEntry(oldname)]
                      ELSE tree]
        at(st) ==
            linked(st, IF st.err = "OK" THEN "EEXIST"
                       ELSE IF st.err = "ENOENT" THEN CreateErr(tree, st.path)
                       ELSE st.err)
    IN at(Lstat(tree, newname))

(***************************************************************************)
(* The operations of Dir.                                                  *)
(***************************************************************************)
\* Open opening the receiver's own Handle and returning the receiver
OpenOnReceiver(d, hdr) ==
    /\ Idle
    /\ dirs[d].used
    /\ LET o == doOpen(dirs[d].path)
           base == [Result("Open", d, <<>>) EXCEPT
                       !.trace = <<TraceOp("Open", dirs[d].path)>>,
                       !.calls = <<"OpenFile">>]
       IN IF o.err # "OK"
          THEN /\ ret' = [base EXCEPT !.err = o.err]
               /\ UNCHANGED dirs
          ELSE /\ dirs' = [dirs EXCEPT ![d].file = o.file,
                                       ![d].handleID = FreshHandleID(d),
                                       ![d].info = hdr]
               /\ ret' = [base EXCEPT
                             !.node = DirNode(dirs[d].parent, dirs[d].name),
                             !.handle = TRUE,
                             !.handleID = FreshHandleID(d)]
    /\ UNCHANGED <<goos, fs, rel>>

Open(d, hdr) ==
    /\ Idle
    /\ dirs[d].used
    /\ LET newdir == NewDir(dirs[d].parent, dirs[d].name)
           o == doOpen(dirs[d].path)
           base == [Result("Open", d, <<>>) EXCEPT
                       !.trace = <<TraceOp("Open", dirs[d].path)>>,
                       !.calls = <<"OpenFile">>,
                       !.entryOpen = isOpen(dirs[d]),
                       !.header = hdr]
       IN IF o.err # "OK"
          THEN /\ ret' = [base EXCEPT !.err = o.err]
               /\ UNCHANGED dirs
          ELSE \E s \in KeepSlots :
                  LET opened == SetProcessInfo(
                                   [newdir EXCEPT !.file = o.file,
                                                  !.handleID = FreshHandleID(s)],
                                   hdr)
                  IN /\ dirs' = Store(s, opened)
                     /\ ret' = [base EXCEPT
                                   !.node = DirNode(opened.parent, opened.name),
                                   !.slot = s,
                                   !.handle = TRUE,
                                   !.handleID = opened.handleID]
    /\ UNCHANGED <<goos, fs, rel>>

\* Release with the trace deferred before the isOpen test
ReleaseTraceFirst(d, flush) ==
    /\ Idle
    /\ dirs[d].used
    /\ IF ~isOpen(dirs[d])
       THEN /\ ret' = [Result("Release", d, <<>>) EXCEPT
                          !.flush = flush,
                          !.trace = <<TraceOp("Release", dirs[d].path)>>]
            /\ UNCHANGED dirs
       ELSE /\ \E e \in doCloseErrs(dirs[d]) :
                 ret' = [Result("Release", d, <<>>) EXCEPT
                            !.err = e,
                            !.flush = flush,
                            !.trace = <<TraceOp("Release", dirs[d].path)>>,
                            !.calls = IF flush THEN <<"Sync", "Close">>
                                      ELSE <<"Close">>]
            /\ dirs' = [dirs EXCEPT ![d] = doClose(dirs[d])]
    /\ UNCHANGED <<goos, fs, rel>>

\* Release without the isOpen test
ReleaseNoGuard(d, flush) ==
    /\ Idle
    /\ dirs[d].used
    /\ \E e \in doCloseErrs(dirs[d]) :
          ret' = [Result("Release", d, <<>>) EXCEPT
                     !.err = e,
                     !.flush = flush,
                     !.trace = <<TraceOp("Release", dirs[d].path)>>,
                     !.calls = IF flush THEN <<"Sync", "Close">>
                               ELSE <<"Close">>]
    /\ dirs' = [dirs EXCEPT ![d] = doClose(dirs[d])]
    /\ UNCHANGED <<goos, fs, rel>>

\* Release giving up, the handle left open, when the flush fails
ReleaseSyncChecked(d, flush) ==
    /\ Idle
    /\ dirs[d].used
    /\ IF ~isOpen(dirs[d])
       THEN /\ ret' = [Result("Release", d, <<>>) EXCEPT !.flush = flush]
            /\ UNCHANGED dirs
       ELSE \E se \in IF flush THEN doSyncErrs(dirs[d]) ELSE {"none"},
               e \in doCloseErrs(dirs[d]) :
               IF se \notin {"none", "OK"}
               THEN /\ ret' = [Result("Release", d, <<>>) EXCEPT
                                  !.err = se,
                                  !.syncErr = se,
                                  !.flush = flush,
                                  !.entryOpen = TRUE,
                                  !.trace = <<TraceOp("Release", dirs[d].path)>>,
                                  !.calls = <<"Sync">>]
                    /\ UNCHANGED dirs
               ELSE /\ ret' = [Result("Release", d, <<>>) EXCEPT
                                  !.err = e,
                                  !.syncErr = se,
                                  !.closeErr = e,
                                  !.flush = flush,
                                  !.entryOpen = TRUE,
                                  !.trace = <<TraceOp("Release", dirs[d].path)>>,
                                  !.calls = IF flush THEN <<"Sync", "Close">>
                                            ELSE <<"Close">>]
                    /\ dirs' = [dirs EXCEPT ![d] = doClose(dirs[d])]
    /\ UNCHANGED <<goos, fs, rel>>

\* Release, run with no other request in between
Release(d, flush) ==
    /\ Idle
    /\ dirs[d].used
    /\ IF ~isOpen(dirs[d])
       THEN /\ ret' = [Result("Release", d, <<>>) EXCEPT !.flush = flush]
            /\ UNCHANGED dirs
       ELSE /\ \E se \in IF flush THEN doSyncErrs(dirs[d]) ELSE {"none"},
                   e \in doCloseErrs(dirs[d]) :
                 ret' = [Result("Release", d, <<>>) EXCEPT
                            !.err = e,
                            !.syncErr = se,
                            !.closeErr = e,
                            !.flush = flush,
                            !.entryOpen = TRUE,
                            !.trace = <<TraceOp("Release", dirs[d].path)>>,
                            !.calls = IF flush THEN <<"Sync", "Close">>
                                      ELSE <<"Close">>]
            /\ dirs' = [dirs EXCEPT ![d] = doClose(dirs[d])]
    /\ UNCHANGED <<goos, fs, rel>>

\* Lookup with stat in place of lstat: a link is followed
LookupStat(d, name) ==
    /\ Idle
    /\ dirs[d].used
    /\ IF skipDirEntry(name)
       THEN /\ ret' = [Result("Lookup", d, name) EXCEPT
                          !.err = "ENOENT", !.entryOpen = isOpen(dirs[d])]
            /\ UNCHANGED dirs
       ELSE LET path == Join(dirs[d].path, name)
                st == Stat(fs, path)
                base == [Result("Lookup", d, name) EXCEPT
                            !.trace = <<TraceOp("Lookup", path)>>,
                            !.calls = <<"Stat">>,
                            !.entryOpen = isOpen(dirs[d])]
            IN IF st.err # "OK"
               THEN /\ ret' = [base EXCEPT !.err = "ENOENT"]
                    /\ UNCHANGED dirs
               ELSE IF st.kind = "dir"
               THEN \E s \in KeepSlots :
                       /\ dirs' = Store(s, NewDir(dirs[d].path, name))
                       /\ ret' = [base EXCEPT
                                     !.node = DirNode(dirs[d].path, name),
                                     !.slot = s,
                                     !.attrValid = AttrValidMs,
                                     !.entryValid = EntryValidMs]
               ELSE /\ ret' = [base EXCEPT
                                  !.node = FileNode(dirs[d].path, name),
                                  !.attrValid = AttrValidMs,
                                  !.entryValid = EntryValidMs]
                    /\ UNCHANGED dirs
    /\ UNCHANGED <<goos, fs, rel>>

Lookup(d, name) ==
    /\ Idle
    /\ dirs[d].used
    /\ IF skipDirEntry(name)
       THEN /\ ret' = [Result("Lookup", d, name) EXCEPT
                          !.err = "ENOENT", !.entryOpen = isOpen(dirs[d])]
            /\ UNCHANGED dirs
       ELSE LET path == Join(dirs[d].path, name)
                st == Lstat(fs, path)
                base == [Result("Lookup", d, name) EXCEPT
                            !.trace = <<TraceOp("Lookup", path)>>,
                            !.calls = <<"Lstat">>,
                            !.entryOpen = isOpen(dirs[d])]
            IN IF st.err # "OK"
               THEN /\ ret' = [base EXCEPT !.err = "ENOENT"]
                    /\ UNCHANGED dirs
               ELSE IF st.kind = "dir"
               THEN \E s \in KeepSlots :
                       /\ dirs' = Store(s, NewDir(dirs[d].path, name))
                       /\ ret' = [base EXCEPT
                                     !.node = DirNode(dirs[d].path, name),
                                     !.slot = s,
                                     !.attrValid = AttrValidMs,
                                     !.entryValid = EntryValidMs]
               ELSE /\ ret' = [base EXCEPT
                                  !.node = FileNode(dirs[d].path, name),
                                  !.attrValid = AttrValidMs,
                                  !.entryValid = EntryValidMs]
                    /\ UNCHANGED dirs
    /\ UNCHANGED <<goos, fs, rel>>

\* ReadDirAll without the isOpen test
ReadDirAllNoGuard(d, order) ==
    /\ Idle
    /\ dirs[d].used
    /\ order \in Orders(Children(fs, dirs[d].file.path))
    /\ LET rd == Readdirnames(dirs[d].file, order)
           base == [Result("ReadDirAll", d, <<>>) EXCEPT
                       !.trace = <<TraceOp("ReadDir", dirs[d].path)>>,
                       !.calls = <<"Readdirnames">>]
       IN IF rd.err # "OK"
          THEN /\ ret' = [base EXCEPT !.err = "EIO"]
               /\ UNCHANGED dirs
          ELSE /\ ret' = [base EXCEPT
                             !.dirents = Entries(dirs[d].path, rd.names)
                                         \o Dots(dirs[d])]
               /\ dirs' = [dirs EXCEPT ![d].file.atEOF = TRUE]
    /\ UNCHANGED <<goos, fs, rel>>

ReadDirAll(d, order) ==
    /\ Idle
    /\ dirs[d].used
    /\ IF ~isOpen(dirs[d])
       THEN /\ order = <<>>
            /\ ret' = [Result("ReadDirAll", d, <<>>) EXCEPT !.err = "ENOTSUP"]
            /\ UNCHANGED dirs
       ELSE /\ order \in Orders(Children(fs, dirs[d].file.path))
            /\ LET rd == Readdirnames(dirs[d].file, order)
                   base == [Result("ReadDirAll", d, <<>>) EXCEPT
                               !.trace = <<TraceOp("ReadDir", dirs[d].path)>>,
                               !.calls = <<"Readdirnames">>,
                               !.entryOpen = TRUE]
               IN IF rd.err # "OK"
                  THEN /\ ret' = [base EXCEPT !.err = "EIO"]
                       /\ UNCHANGED dirs
                  ELSE /\ ret' = [base EXCEPT
                                     !.dirents = Entries(dirs[d].path, rd.names)
                                                 \o Dots(dirs[d])]
                       /\ dirs' = [dirs EXCEPT ![d].file.atEOF = TRUE]
    /\ UNCHANGED <<goos, fs, rel>>

\* MkdirCall with os.MkdirAll: a directory already there is no error
MkdirCallAll(tree, d, name) ==
    LET result(st, m) ==
            IF st.err = "OK" /\ st.kind = "dir"
            THEN [err |-> "OK", tree |-> tree]
            ELSE [err |-> IF m.err = "OK" THEN "OK"
                          ELSE osErrorToFuseError(PathError(m.err)),
                  tree |-> m.tree]
    IN result(Stat(tree, Join(dirs[d].path, name)),
              osMkdir(tree, Join(dirs[d].path, name)))

\* Mkdir's backing call on a tree: the error returned and the tree left
MkdirCall(tree, d, name) ==
    LET result(m) ==
            [err |-> IF m.err = "OK" THEN "OK"
                     ELSE osErrorToFuseError(PathError(m.err)),
             tree |-> m.tree]
    IN result(osMkdir(tree, Join(dirs[d].path, name)))

\* Mkdir calling os.Mkdir a second time when the first call failed
MkdirRetry(d, name) ==
    /\ Idle
    /\ dirs[d].used
    /\ LET m == MkdirCall(fs, d, name)
           base == [Result("Mkdir", d, name) EXCEPT
                       !.trace = <<TraceOp("Mkdir", Join(dirs[d].path, name))>>,
                       !.calls = <<"Mkdir">>,
                       !.entryOpen = isOpen(dirs[d])]
       IN /\ fs' = m.tree
          /\ IF m.err # "OK"
             THEN /\ ret' = [base EXCEPT !.err = m.err,
                                          !.calls = <<"Mkdir", "Mkdir">>]
                  /\ UNCHANGED dirs
             ELSE \E s \in KeepSlots :
                     /\ dirs' = Store(s, NewDir(dirs[d].path, name))
                     /\ ret' = [base EXCEPT
                                   !.node = DirNode(dirs[d].path, name),
                                   !.slot = s]
    /\ UNCHANGED <<goos, rel>>

Mkdir(d, name) ==
    /\ Idle
    /\ dirs[d].used
    /\ LET m == MkdirCall(fs, d, name)
           base == [Result("Mkdir", d, name) EXCEPT
                       !.trace = <<TraceOp("Mkdir", Join(dirs[d].path, name))>>,
                       !.calls = <<"Mkdir">>,
                       !.entryOpen = isOpen(dirs[d])]
       IN /\ fs' = m.tree
          /\ IF m.err # "OK"
             THEN /\ ret' = [base EXCEPT !.err = m.err]
                  /\ UNCHANGED dirs
             ELSE \E s \in KeepSlots :
                     /\ dirs' = Store(s, NewDir(dirs[d].path, name))
                     /\ ret' = [base EXCEPT
                                   !.node = DirNode(dirs[d].path, name),
                                   !.slot = s]
    /\ UNCHANGED <<goos, rel>>

\* Remove's backing call on a tree
RemoveCall(tree, d, name) ==
    LET result(r) ==
            [err |-> IF r.err = "OK" THEN "OK"
                     ELSE osErrorToFuseError(PathError(r.err)),
             tree |-> r.tree,
             gone |-> r.gone]
    IN result(osRemove(tree, Join(dirs[d].path, name)))

Remove(d, name) ==
    /\ Idle
    /\ dirs[d].used
    /\ LET r == RemoveCall(fs, d, name)
       IN /\ fs' = r.tree
          \* a descriptor open on the directory removed is dead from now on
          /\ dirs' = [i \in Slots |->
                        IF dirs[i].file.open /\ dirs[i].file.path \in r.gone
                        THEN [dirs[i] EXCEPT !.file.dead = TRUE]
                        ELSE dirs[i]]
          /\ ret' = [Result("Remove", d, name) EXCEPT
                        !.err = r.err,
                        !.trace = <<TraceOp("Remove", Join(dirs[d].path, name))>>,
                        !.calls = <<"Remove">>,
                        !.entryOpen = isOpen(dirs[d])]
    /\ UNCHANGED <<goos, rel>>

\* Create returning NewFile, whose handle is closed
CreateUnopened(d, name, excl) ==
    /\ Idle
    /\ dirs[d].used
    /\ LET path == Join(dirs[d].path, name)
           c == osCreate(fs, path, excl)
           base == [Result("Create", d, name) EXCEPT
                       !.trace = <<TraceOp("Create", path)>>,
                       !.calls = <<"OpenFile">>,
                       !.entryOpen = isOpen(dirs[d])]
       IN /\ fs' = c.tree
          /\ ret' = IF c.err # "OK"
                    THEN [base EXCEPT
                             !.err = osErrorToFuseError(PathError(c.err))]
                    ELSE [base EXCEPT
                             !.node = FileNode(dirs[d].path, name),
                             !.handle = TRUE,
                             !.opened = NewFile(dirs[d].path, name)]
    /\ UNCHANGED <<goos, dirs, rel>>

Create(d, name, excl) ==
    /\ Idle
    /\ dirs[d].used
    /\ LET path == Join(dirs[d].path, name)
           c == osCreate(fs, path, excl)
           base == [Result("Create", d, name) EXCEPT
                       !.trace = <<TraceOp("Create", path)>>,
                       !.calls = <<"OpenFile">>,
                       !.excl = excl,
                       !.entryOpen = isOpen(dirs[d])]
       IN /\ fs' = c.tree
          /\ ret' = IF c.err # "OK"
                    THEN [base EXCEPT
                             !.err = osErrorToFuseError(PathError(c.err))]
                    ELSE [base EXCEPT
                             !.node = FileNode(dirs[d].path, name),
                             !.handle = TRUE,
                             !.opened = NewOpenFile(dirs[d].path, name,
                                                    OpenedFile(path))]
    /\ UNCHANGED <<goos, dirs, rel>>

\* SymlinkTarget rewriting absolute request targets only
SymlinkTargetAbsOnly(d, target) ==
    IF IsAbs(target) /\ HasPrefix(target, mountDir)
    THEN LET abs1 == ReplaceFirst(target, mountDir, shadowDir)
         IN [absTarget |-> abs1, linkTarget |-> abs1]
    ELSE [absTarget |-> IF IsAbs(target) THEN target
                        ELSE Join(dirs[d].path, target),
          linkTarget |-> target]

\* the link target Symlink persists for a request target, and the absolute
\* target it stats
SymlinkTarget(d, target) ==
    LET abs0 == IF ~IsAbs(target) THEN Join(dirs[d].path, target) ELSE target
    IN IF HasPrefix(abs0, mountDir)
       THEN LET abs1 == ReplaceFirst(abs0, mountDir, shadowDir)
            IN [absTarget |-> abs1, linkTarget |-> abs1]
       ELSE [absTarget |-> abs0, linkTarget |-> target]

\* TargetIsDir with stat in place of lstat: a link is followed
TargetIsDirStat(tree, absTarget) ==
    LET isDir(info) == info.err = "OK" /\ info.kind = "dir"
    IN isDir(Stat(tree, absTarget))

\* targetIsDir of Symlink: os.Lstat(absTarget) succeeds and info.IsDir()
TargetIsDir(tree, absTarget) ==
    LET isDir(info) == info.err = "OK" /\ info.kind = "dir"
    IN isDir(Lstat(tree, absTarget))

Symlink(d, newName, target) ==
    /\ Idle
    /\ dirs[d].used
    /\ LET absNewName == Join(dirs[d].path, newName)
           tg == SymlinkTarget(d, target)
           targetIsDir == TargetIsDir(fs, tg.absTarget)
           l == osSymlink(fs, tg.linkTarget, absNewName)
           base == [Result("Symlink", d, newName) EXCEPT
                       !.trace = <<TraceOp("Symlink", absNewName)>>,
                       !.calls = <<"Lstat", "Symlink">>,
                       !.entryOpen = isOpen(dirs[d]),
                       !.target = target]
       IN /\ fs' = l.tree
          /\ IF l.err # "OK"
             THEN /\ ret' = [base EXCEPT
                                !.err = osErrorToFuseError(LinkError(l.err))]
                  /\ UNCHANGED dirs
             ELSE IF targetIsDir
             THEN \E s \in KeepSlots :
                     /\ dirs' = Store(s, NewDir(dirs[d].path, newName))
                     /\ ret' = [base EXCEPT
                                   !.node = DirNode(dirs[d].path, newName),
                                   !.slot = s,
                                   !.persisted = tg.linkTarget]
             ELSE /\ ret' = [base EXCEPT
                                !.node = FileNode(dirs[d].path, newName),
                                !.persisted = tg.linkTarget]
                  /\ UNCHANGED dirs
    /\ UNCHANGED <<goos, rel>>

\* the dispatcher sends the response; the handler's return values are gone
Respond ==
    /\ ~Idle
    /\ ret' = NoResult
    /\ UNCHANGED <<goos, fs, dirs, rel>>

AllOrders == UNION {Orders(S) : S \in SUBSET Names}

Next ==
    \/ \E d \in Slots, hdr \in Headers : Open(d, hdr)
    \/ \E d \in Slots, flush \in BOOLEAN : Release(d, flush)
    \/ \E d \in Slots, name \in Names : Lookup(d, name)
    \/ \E d \in Slots, order \in AllOrders : ReadDirAll(d, order)
    \/ \E d \in Slots, name \in Names : Mkdir(d, name)
    \/ \E d \in Slots, name \in Names : Remove(d, name)
    \/ \E d \in Slots, name \in Names, excl \in BOOLEAN : Create(d, name, excl)
    \/ \E d \in Slots, name \in Names, target \in Targets : Symlink(d, name, target)
    \/ Respond

Spec == Init /\ [][Next]_vars

(***************************************************************************)
(* Release as the dispatcher's parallel workers run it: a request is at    *)
(* the isOpen test, at doSync or at doClose, and other requests run in     *)
(* between.  Nothing in Release or in Dir locks the handle.                *)
(***************************************************************************)
\* Release, up to the call of doSync or doClose
ReleaseEnter(t, d, flush) ==
    /\ Idle
    /\ dirs[d].used
    /\ rel[t].pc = "idle"
    /\ \A u \in Threads : u < t => rel[u].pc # "idle"
    /\ IF ~isOpen(dirs[d])
       THEN /\ ret' = [Result("Release", d, <<>>) EXCEPT !.flush = flush]
            /\ UNCHANGED rel
       ELSE /\ rel' = [rel EXCEPT ![t] =
                          [pc |-> IF flush THEN "sync" ELSE "close",
                           d |-> d, flush |-> flush, calls |-> <<>>]]
            /\ UNCHANGED ret
    /\ UNCHANGED <<goos, fs, dirs>>

\* d.doSync()
ReleaseSync(t) ==
    /\ rel[t].pc = "sync"
    /\ rel' = [rel EXCEPT ![t].pc = "close", ![t].calls = Append(@, "Sync")]
    /\ UNCHANGED <<goos, fs, dirs, ret>>

\* return d.doClose(), then the deferred trace
ReleaseClose(t) ==
    /\ Idle
    /\ rel[t].pc = "close"
    /\ LET d == rel[t].d
       IN /\ \E e \in doCloseErrs(dirs[d]) :
                ret' = [Result("Release", d, <<>>) EXCEPT
                           !.err = e,
                           !.flush = rel[t].flush,
                           !.entryOpen = TRUE,
                           !.trace = <<TraceOp("Release", dirs[d].path)>>,
                           !.calls = Append(rel[t].calls, "Close")]
          /\ dirs' = [dirs EXCEPT ![d] = doClose(dirs[d])]
    /\ rel' = [rel EXCEPT ![t] = IdleThread]
    /\ UNCHANGED <<goos, fs>>

InitConc == InitWith(MaxHandles)

\* the operations that read or change a handle's state, with Release
\* interleaved at its calls, and the two that make and remove a
\* directory below the root, so that a node can outlive its directory
NextConc ==
    \/ \E d \in Slots, hdr \in Headers : Open(d, hdr)
    \/ \E t \in Threads, d \in Slots, flush \in BOOLEAN : ReleaseEnter(t, d, flush)
    \/ \E t \in Threads : ReleaseSync(t)
    \/ \E t \in Threads : ReleaseClose(t)
    \/ \E d \in Slots, order \in AllOrders : ReadDirAll(d, order)
    \/ Mkdir(1, NameA)
    \/ Remove(1, NameA)
    \/ Respond

SpecConc == InitConc /\ [][NextConc]_vars

(***************************************************************************)
(* osErrorToFuseError on its own, handed every shape of error value.       *)
(***************************************************************************)
\* one call osErrorToFuseError(err); "PANIC" is a failed type assertion
Translate(err) ==
    /\ Idle
    /\ ret' = [Result("osErrorToFuseError", 0, <<>>) EXCEPT
                  !.cause = err,
                  !.err = osErrorToFuseError(err)]
    /\ UNCHANGED <<goos, fs, dirs, rel>>

InitErr == InitWith(MaxDirs)

NextErr ==
    \/ \E err \in Causes : Translate(err)
    \/ Respond

SpecErr == InitErr /\ [][NextErr]_vars

(***************************************************************************)
(* Properties.                                                             *)
(***************************************************************************)
\* the invocations a handler turns away before it defers its trace record
Rejected ==
    \/ ret.op = "Release" /\ ~ret.entryOpen
    \/ ret.op = "ReadDirAll" /\ ~ret.entryOpen
    \/ ret.op = "Lookup" /\ skipDirEntry(ret.name)

C2_ReleaseClosedNoOp ==
    [][\A d \in Slots :
          (Idle /\ ret'.op = "Release" /\ ret'.d = d) =>
              /\ ~isOpen(dirs'[d])
              /\ ~isOpen(dirs[d]) =>
                    /\ ret'.err = "OK"
                    /\ ret'.calls = <<>>
                    /\ dirs' = dirs
                    /\ fs' = fs]_vars

\* a Release with the flush flag came in on a handle released before
C2_Witness ==
    /\ ret.op = "Release"
    /\ ret.flush
    /\ ~ret.entryOpen
    /\ ret.err = "OK"
    /\ dirs[ret.d].closes = 1
    /\ dirs[ret.d].info # NoProcessInfo

\* C3: under any interleaving of Release calls on a handle, its descriptor
\* is closed at most once and never closed while closed already.
C3_ClosedAtMostOnce ==
    \A d \in Slots : dirs[d].closes <= 1

\* C4: ReadDirAll on a Dir whose handle is not open (never opened, the
\* receiver of Open included, or released) fails with ENOTSUP, makes no
\* backing call and changes nothing.
C4_ReadDirAllNeedsOpen ==
    [][\A d \in Slots :
          (Idle /\ ret'.op = "ReadDirAll" /\ ret'.d = d /\ ~isOpen(dirs[d])) =>
              /\ ret'.err = "ENOTSUP"
              /\ ret'.dirents = <<>>
              /\ ret'.calls = <<>>
              /\ dirs' = dirs
              /\ fs' = fs]_vars

\* ReadDirAll was refused on the root node while a Dir that Open returned
\* for the same path is open
C4_Witness ==
    /\ ret.op = "ReadDirAll"
    /\ ret.d = 1
    /\ ret.err = "ENOTSUP"
    /\ \E i \in Slots : isOpen(dirs[i]) /\ dirs[i].path = dirs[1].path

\* the positions of a dirent sequence that carry the name n
Named(ents, n) == {i \in 1..Len(ents) : ents[i].name = n}

\* C5: a successful ReadDirAll returns a sequence that ends with "." then
\* "..", and each of the two names occurs exactly once in it.
C5_DotsLastOnce ==
    (ret.op = "ReadDirAll" /\ ret.err = "OK") =>
        LET n == Len(ret.dirents)
        IN /\ n >= 2
           /\ Named(ret.dirents, Dot) = {n - 1}
           /\ Named(ret.dirents, DotDot) = {n}

\* a directory with two children was enumerated
C5_Witness ==
    /\ ret.op = "ReadDirAll"
    /\ ret.err = "OK"
    /\ Len(ret.dirents) = 4

\* C6: every successful ReadDirAll on an open Dir, the first and any
\* repeated one, returns before the dot entries exactly the children the
\* backing directory holds at the call, less the suppressed names.
C6_ListsChildren ==
    (ret.op = "ReadDirAll" /\ ret.err = "OK") =>
        LET n == Len(ret.dirents) - 2
            got == {ret.dirents[i].name : i \in 1..n}
            want == {c \in Children(fs, dirs[ret.d].file.path) :
                        ~skipDirEntry(c)}
        IN got = want /\ Cardinality(got) = n

\* the inode an lstat result stands for
InodeOf(st) == IF st.err = "OK" THEN st.path ELSE <<>>

\* C7: in a ReadDirAll result the "." entry is built from the Dir's path;
\* the ".." entry of a Dir with an empty parent path has the inode and kind
\* of the "." entry and the name "..", and that of a Dir with a parent path
\* is built from the parent path.
C7_DotDotEntry ==
    (ret.op = "ReadDirAll" /\ ret.err = "OK") =>
        LET n == Len(ret.dirents)
            dot == ret.dirents[n - 1]
            dotdot == ret.dirents[n]
            own == Lstat(fs, ret.path)
            up == Lstat(fs, ret.parent)
        IN /\ dot = [inode |-> InodeOf(own), name |-> Dot, kind |-> own.kind]
           /\ dotdot.name = DotDot
           /\ IF ret.parent = <<>>
              THEN dotdot.inode = dot.inode /\ dotdot.kind = dot.kind
              ELSE dotdot.inode = InodeOf(up) /\ dotdot.kind = up.kind

\* the root directory was enumerated
C7_Witness ==
    /\ ret.op = "ReadDirAll"
    /\ ret.err = "OK"
    /\ ret.parent = <<>>
    /\ ret.dirents[Len(ret.dirents)].inode = shadowDir
    /\ ret.dirents[Len(ret.dirents)].kind = "dir"

\* a request target made absolute against the creating directory
AbsTargetOf(dirPath, target) ==
    IF IsAbs(target) THEN target ELSE Join(dirPath, target)

\* the path is the mount root or below it, component by component
UnderMount(p) ==
    LET mc == Split(mountDir)
        pc == Split(p)
    IN Len(pc) >= Len(mc) /\ SubSeq(pc, 1, Len(mc)) = mc

\* the entry the backing tree holds at a path, the last link not followed
EntryAt(path) ==
    LET st == Lstat(fs, path)
    IN IF st.err = "OK" /\ st.path \in FsPaths THEN fs[st.path] ELSE NoEntry

C9_OtherTargetsKept ==
    (ret.op = "Symlink" /\ ret.err = "OK") =>
        LET abs == AbsTargetOf(ret.path, ret.target)
        IN ~UnderMount(abs) =>
              EntryAt(Join(ret.path, ret.name)) = LinkEntry(ret.target)

\* the children an enumeration of the directory at a path shows
Enumerated(tree, path) == {c \in KidsOf(tree, path) : ~skipDirEntry(c)}

\* the children of d's directory after Mkdir then Remove of name on a tree
AfterPair(d, name) ==
    LET m == MkdirCall(fs, d, name)
        r == RemoveCall(m.tree, d, name)
    IN [mkdirErr |-> m.err, removeErr |-> r.err,
        kids |-> Enumerated(r.tree, dirs[d].path)]

\* C10, as stated: Mkdir of a name then Remove of the same name in the same
\* directory, whatever either returns and whatever the directory held,
\* leaves its enumerated children as they were.
C10_PairLeavesChildren ==
    \A d \in Slots : dirs[d].used =>
        \A name \in Names :
            AfterPair(d, name).kids = Enumerated(fs, dirs[d].path)

\* C10, amended: Mkdir of a name then Remove of the same name in the same
\* directory leaves its enumerated children as they were when the two
\* calls have the same outcome, both succeeding or both failing.
C10_PairSameOutcome ==
    \A d \in Slots : dirs[d].used =>
        \A name \in Names :
            LET a == AfterPair(d, name)
            IN ((a.mkdirErr = "OK") <=> (a.removeErr = "OK")) =>
                  a.kids = Enumerated(fs, dirs[d].path)

\* a Mkdir has just created the name in a directory that holds another
\* entry, and the Remove of that name would succeed
C10_Witness ==
    /\ ret.op = "Mkdir"
    /\ ret.err = "OK"
    /\ Cardinality(Enumerated(fs, ret.path)) = 2
    /\ osRemove(fs, Join(ret.path, ret.name)).err = "OK"

\* C11: osErrorToFuseError returns a code for every non-nil cause, a path
\* or link failure wrapping any inner error, a bare system error code or any
\* other error; it never crashes.
C11_TranslatorNeverCrashes ==
    ret.op = "osErrorToFuseError" =>
        /\ ret.err # "PANIC"
        /\ ret.err = osErrorToFuseError(ret.cause)

\* C12: for a path failure or a link failure carrying a system error code,
\* and for a bare system error code, osErrorToFuseError returns the code
\* carried; for an error of another type it returns EIO.
C12_RecognizedShapesGiveCode ==
    ret.op = "osErrorToFuseError" =>
        LET c == ret.cause
        IN /\ (c.shape \in {"PathError", "LinkError", "Errno"} /\ c.innerErrno)
                 => ret.err = c.code
           /\ c.shape = "Other" => ret.err = "EIO"

\* C13: Lookup of a name skipDirEntry suppresses returns ENOENT and no
\* node without a backing call, whatever the backing tree holds, and no
\* dirent a ReadDirAll returns carries a suppressed name.
C13_SuppressedHidden ==
    /\ (ret.op = "Lookup" /\ skipDirEntry(ret.name)) =>
          /\ ret.err = "ENOENT"
          /\ ret.node = NoNode
          /\ ret.calls = <<>>
    /\ ret.op = "ReadDirAll" =>
          \A i \in 1..Len(ret.dirents) : ~skipDirEntry(ret.dirents[i].name)

\* a directory holding a suppressed and a visible name was enumerated, and
\* only the visible one came back with the dots
C13_Witness ==
    /\ ret.op = "ReadDirAll"
    /\ ret.err = "OK"
    /\ Cardinality(KidsOf(fs, ret.path)) = 2
    /\ \E c \in KidsOf(fs, ret.path) : skipDirEntry(c)
    /\ Len(ret.dirents) = 3

\* C14: a successful Create returns a File node and, as the handle, a File
\* whose Handle is open already, so that a write through it is not refused
\* though no Open was called; a failed Create returns no node and no
\* handle.
C14_CreateReturnsOpenHandle ==
    ret.op = "Create" =>
        IF ret.err = "OK"
        THEN /\ ret.node = FileNode(ret.path, ret.name)
             /\ ret.handle
             /\ isOpen(ret.opened)
             /\ FileWrite(ret.opened) = "OK"
             /\ ret.calls = <<"OpenFile">>
        ELSE /\ ret.node = NoNode
             /\ ~ret.handle
             /\ ret.opened = NoHandle

\* Create made a new file in a directory and returned
C14_Witness ==
    /\ ret.op = "Create"
    /\ ret.err = "OK"
    /\ EntryAt(Join(ret.path, ret.name)) = FileEntry
    /\ ret.opened.path = Join(ret.path, ret.name)
    /\ ret.opened.file.open

\* C15: a Lookup of a name that is not suppressed returns ENOENT and no
\* node whenever the lstat of the joined path fails, whatever the cause;
\* when it succeeds, a Dir node if the entry itself is a directory and a
\* File node otherwise (a link never gives a Dir node), with attribute
\* validity 1 s and entry validity 500 ms; no Lookup changes the backing
\* tree.
C15_LookupClassifies ==
    [][\A d \in Slots, name \in Names :
          (Idle /\ ret'.op = "Lookup" /\ ret'.d = d /\ ret'.name = name) =>
              /\ fs' = fs
              /\ ~skipDirEntry(name) =>
                    LET st == Lstat(fs, Join(dirs[d].path, name))
                    IN IF st.err # "OK"
                       THEN ret'.err = "ENOENT" /\ ret'.node = NoNode
                       ELSE /\ ret'.err = "OK"
                            /\ ret'.node =
                                  IF st.kind = "dir"
                                  THEN DirNode(dirs[d].path, name)
                                  ELSE FileNode(dirs[d].path, name)
                            /\ st.kind = "link" => ret'.node.type = "File"
                            /\ ret'.attrValid = 1000
                            /\ ret'.entryValid = 500]_vars

\* a Lookup returned ENOENT though the lstat failed for another reason
\* than a missing entry
C15_Witness ==
    /\ ret.op = "Lookup"
    /\ ~skipDirEntry(ret.name)
    /\ ret.err = "ENOENT"
    /\ Lstat(fs, Join(ret.path, ret.name)).err \notin {"OK", "ENOENT"}

\* C16: a Release of an open handle flushes and then closes when the flush
\* flag is set and only closes when it is not; the close is attempted once
\* whatever the flush gave back, the handle is closed afterwards, and the
\* call returns what the close returned.
C16_FlushThenCloseOnce ==
    (ret.op = "Release" /\ ret.entryOpen) =>
        /\ ret.calls = IF ret.flush THEN <<"Sync", "Close">> ELSE <<"Close">>
        /\ ret.flush <=> ret.syncErr # "none"
        /\ ret.closeErr # "none"
        /\ ret.err = ret.closeErr
        /\ ~isOpen(dirs[ret.d])

\* a Release with the flush flag returned success though the flush failed
C16_Witness ==
    /\ ret.op = "Release"
    /\ ret.entryOpen
    /\ ret.flush
    /\ ret.syncErr = "EIO"
    /\ ret.closeErr = "OK"
    /\ ret.err = "OK"

\* C17: a successful Open returns a new Dir whose Handle is open and
\* carries the handle identifier of the response, and changes no other
\* Dir, the receiver and the Dirs returned before included; a Release
\* changes no Dir but its own, at whatever point other requests run; a
\* failed Open returns no node and no handle, sets no handle identifier
\* and changes no Dir.
C17_HandlesArePrivate ==
    [][/\ (Idle /\ ret'.op = "Open") =>
            IF ret'.err = "OK"
            THEN /\ ret'.node.type = "Dir"
                 /\ ret'.handle
                 /\ ret'.handleID # 0
                 /\ \A i \in Slots \ {ret'.slot} : dirs'[i] = dirs[i]
                 /\ ret'.slot # 0 =>
                       /\ isOpen(dirs'[ret'.slot])
                       /\ dirs'[ret'.slot].handleID = ret'.handleID
                       /\ dirs'[ret'.slot].closes = 0
            ELSE /\ ret'.node = NoNode
                 /\ ~ret'.handle
                 /\ ret'.handleID = 0
                 /\ dirs' = dirs
       /\ (Idle /\ ret'.op = "Release") =>
            \A i \in Slots \ {ret'.d} : dirs'[i] = dirs[i]
       /\ (\E t \in Threads : rel'[t] # rel[t]) =>
            \A i \in Slots :
                dirs'[i] # dirs[i] => \E t \in Threads : rel[t].d = i]_vars

\* one of two handles open on the same path was released and the other
\* is still open
C17_Witness ==
    /\ ret.op = "Release"
    /\ ret.entryOpen
    /\ ~isOpen(dirs[ret.d])
    /\ \E i \in Slots \ {ret.d} :
          isOpen(dirs[i]) /\ dirs[i].path = dirs[ret.d].path

\* the error value the backing call of a request gives on the tree as it
\* is, NoCause when the call succeeds
BackingFailure(op, d, name, target, excl) ==
    LET path == Join(dirs[d].path, name)
        wrap(shape, code) ==
            IF code = "OK" THEN NoCause
            ELSE [shape |-> shape, innerErrno |-> TRUE, code |-> code]
    IN CASE op = "Mkdir" -> wrap("PathError", osMkdir(fs, path).err)
         [] op = "Remove" -> wrap("PathError", osRemove(fs, path).err)
         [] op = "Create" -> wrap("PathError", osCreate(fs, path, excl).err)
         [] op = "Symlink" ->
               wrap("LinkError",
                    osSymlink(fs, SymlinkTarget(d, target).linkTarget, path).err)

\* the backing calls a request makes, in order
BackingCalls(op) ==
    CASE op = "Mkdir" -> <<"Mkdir">>
      [] op = "Remove" -> <<"Remove">>
      [] op = "Create" -> <<"OpenFile">>
      [] op = "Symlink" -> <<"Lstat", "Symlink">>

\* C18: a Mkdir, Remove, Create or Symlink whose backing call fails
\* returns the error code that failure carries, no node and no handle,
\* has made the failing call once, and leaves the backing tree and the
\* Dir objects as they were.
C18_FailureLeavesTree ==
    [][\A d \in Slots :
          (/\ Idle
           /\ ret'.op \in {"Mkdir", "Remove", "Create", "Symlink"}
           /\ ret'.d = d
           /\ ret'.err # "OK") =>
              LET cause == BackingFailure(ret'.op, d, ret'.name,
                                          ret'.target, ret'.excl)
              IN /\ cause # NoCause
                 /\ ret'.err = cause.code
                 /\ ret'.node = NoNode
                 /\ ~ret'.handle
                 /\ ret'.opened = NoHandle
                 /\ ret'.calls = BackingCalls(ret'.op)
                 /\ fs' = fs
                 /\ dirs' = dirs]_vars

\* a Mkdir of a name that exists failed with EEXIST
C18_Witness ==
    /\ ret.op = "Mkdir"
    /\ ret.err = "EEXIST"
    /\ ret.calls = <<"Mkdir">>
    /\ EntryAt(Join(ret.path, ret.name)) # NoEntry

\* C19: the ProcessInfo of the Dir a successful Open returns is the
\* identity triple of that Open request, and no step changes the
\* ProcessInfo of a Dir the dispatcher holds, whatever request runs on it.
C19_ProcessInfoFixedAtOpen ==
    [][/\ (Idle /\ ret'.op = "Open" /\ ret'.err = "OK" /\ ret'.slot # 0) =>
            /\ ret'.header \in Headers
            /\ dirs'[ret'.slot].info = ret'.header
       /\ \A i \in Slots :
            ~(Idle /\ ret'.slot = i) => dirs'[i].info = dirs[i].info]_vars

\* the Dir an Open by the second process returned was released, and still
\* carries that process's identity
C19_Witness ==
    /\ ret.op = "Release"
    /\ ret.entryOpen
    /\ dirs[ret.d].closes = 1
    /\ dirs[ret.d].info = [Uid |-> 1000, Gid |-> 100, Pid |-> 2]

\* C20: a successful Symlink returns a Dir node when the absolute target,
\* rewritten or not, is a directory in the backing tree as the call finds
\* it, the last component not followed, and a File node when it is
\* missing, a file or a link; either way the tree gains one link, and it
\* holds the link target the rewriting rule gives.
C20_SymlinkNodeByTarget ==
    [][\A d \in Slots :
          (Idle /\ ret'.op = "Symlink" /\ ret'.d = d /\ ret'.err = "OK") =>
              LET tg == SymlinkTarget(d, ret'.target)
                  st == Lstat(fs, tg.absTarget)
              IN /\ ret'.node =
                       IF st.err = "OK" /\ st.kind = "dir"
                       THEN DirNode(dirs[d].path, ret'.name)
                       ELSE FileNode(dirs[d].path, ret'.name)
                 /\ st.kind \in {"none", "file", "link"} =>
                       ret'.node.type = "File"
                 /\ ret'.persisted = tg.linkTarget
                 /\ \E p \in FsPaths :
                       /\ fs[p] = NoEntry
                       /\ fs' = [fs EXCEPT ![p] = LinkEntry(tg.linkTarget)]]_vars

\* a link to a directory below the mount root was made: the target was
\* rewritten and a Dir node came back
C20_Witness ==
    /\ ret.op = "Symlink"
    /\ ret.err = "OK"
    /\ ret.target = <<"/", "m", "/", "a">>
    /\ ret.persisted = <<"/", "s", "/", "a">>
    /\ ret.node.type = "Dir"

====
